---- MODULE Spec2Model ----
(***************************************************************************)
(* Model of classif/prediction.py: the predict_* orchestrators, the        *)
(* get_*_predictions service adapters and the files they write.            *)
(*                                                                         *)
(* Strings are sequences of one-character strings, so that str.replace,    *)
(* os.path.basename, os.path.splitext, FASTA formatting and the            *)
(* lexicographic order used by sorted() are computed, not assumed.         *)
(***************************************************************************)
EXTENDS Integers, Sequences, FiniteSets, TLC

----------------------------------------------------------------------------
(* Bounds of the model *)

\* most records in the input FASTA file
MaxRecords == 3
\* most invocations of predict_* functions against the same output directory
MaxRuns == 2

----------------------------------------------------------------------------
(* Strings *)

RECURSIVE Concat(_)
\* "".join(parts)
Concat(parts) ==
    IF parts = <<>> THEN <<>> ELSE Head(parts) \o Concat(Tail(parts))

StartsWith(s, p) ==
    /\ Len(p) <= Len(s)
    /\ SubSeq(s, 1, Len(p)) = p

RECURSIVE Replace(_, _, _)
\* str.replace(old, new): every non-overlapping occurrence, left to right
Replace(s, old, new) ==
    IF s = <<>> THEN <<>>
    ELSE IF StartsWith(s, old)
         THEN new \o Replace(SubSeq(s, Len(old) + 1, Len(s)), old, new)
         ELSE <<Head(s)>> \o Replace(Tail(s), old, new)

\* position of the last occurrence of character c in s, 0 when absent (str.rfind + 1)
RFind(s, c) ==
    LET hits == {k \in 1..Len(s) : s[k] = c}
    IN  IF hits = {} THEN 0 ELSE CHOOSE k \in hits : \A j \in hits : j <= k

\* code points of the characters that occur in compared strings
Code(c) ==
    CASE c = "\n" -> 10
      [] c = " " -> 32
      [] c = "0" -> 48
      [] c = "1" -> 49
      [] c = "2" -> 50
      [] c = "3" -> 51
      [] c = ">" -> 62
      [] c = "A" -> 65
      [] c = "a" -> 97
      [] c = "b" -> 98
      [] c = "c" -> 99
      [] OTHER -> 127

RECURSIVE StrLess(_, _)
\* Python's s < t on str
StrLess(s, t) ==
    IF t = <<>> THEN FALSE
    ELSE IF s = <<>> THEN TRUE
    ELSE IF Head(s) = Head(t) THEN StrLess(Tail(s), Tail(t))
    ELSE Code(Head(s)) < Code(Head(t))

RECURSIVE ListLess(_, _)
\* Python's a < b on lists of str
ListLess(a, b) ==
    IF b = <<>> THEN FALSE
    ELSE IF a = <<>> THEN TRUE
    ELSE IF Head(a) = Head(b) THEN ListLess(Tail(a), Tail(b))
    ELSE StrLess(Head(a), Head(b))

RECURSIVE Insert(_, _)
Insert(x, sortedList) ==
    IF sortedList = <<>> THEN <<x>>
    ELSE IF ListLess(x, Head(sortedList))
         THEN <<x>> \o sortedList
         ELSE <<Head(sortedList)>> \o Insert(x, Tail(sortedList))

RECURSIVE Sorted(_)
\* sorted(chunks): stable, ascending
Sorted(xs) ==
    IF xs = <<>> THEN <<>>
    ELSE Insert(xs[Len(xs)], Sorted(SubSeq(xs, 1, Len(xs) - 1)))

\* str(i) for the indices a file of at most MaxRecords + 1 records can have
Str(i) ==
    CASE i = 0 -> <<"0">>
      [] i = 1 -> <<"1">>
      [] i = 2 -> <<"2">>
      [] i = 3 -> <<"3">>
      [] OTHER -> <<"9">>

----------------------------------------------------------------------------
(* Paths *)

\* os.path.basename
Basename(p) == SubSeq(p, RFind(p, "/") + 1, Len(p))

\* os.path.splitext(p)[0]: cut at the last dot of the last component, unless
\* that dot only leads the component
SplitextRoot(p) ==
    LET sep == RFind(p, "/")
        dot == RFind(p, ".")
        lead == {k \in (sep + 1)..Len(p) : \A j \in (sep + 1)..k : p[j] = "."}
    IN  IF dot > sep /\ dot \notin lead THEN SubSeq(p, 1, dot - 1) ELSE p

\* os.path.join(a, b) for a relative b
PathJoin(a, b) ==
    IF a = <<>> THEN b
    ELSE IF a[Len(a)] = "/" THEN a \o b
    ELSE a \o <<"/">> \o b

----------------------------------------------------------------------------
(* FASTA records and their serialisation *)

RecA == [id |-> <<"a">>, seq |-> <<"A">>]
RecB == [id |-> <<"b">>, seq |-> <<"A", "A">>]
RecC == [id |-> <<"c">>, seq |-> <<"A", "A", "A", "A", "A", "A">>]
RecordPool == {RecA, RecB, RecC}

\* the files Bio.SeqIO.parse can return: records with distinct identifiers
Files ==
    {f \in UNION {[1..n -> RecordPool] : n \in 0..MaxRecords} :
        \A j, k \in DOMAIN f : j /= k => f[j] /= f[k]}

\* item.format("fasta")
Format(item) == <<">">> \o item.id \o <<"\n">> \o item.seq \o <<"\n">>

\* position of the first occurrence of character c in s, 0 when absent
IndexOf(s, c) ==
    LET hits == {k \in 1..Len(s) : s[k] = c}
    IN  IF hits = {} THEN 0 ELSE CHOOSE k \in hits : \A j \in hits : k <= j

NotNewline(c) == c /= "\n"

RECURSIVE ParseFasta(_)
\* Bio.SeqIO.parse(handle, "fasta") over a serialised payload
ParseFasta(s) ==
    IF s = <<>> THEN <<>>
    ELSE LET nl == IndexOf(s, "\n")
             title == SubSeq(s, 2, nl - 1)
             sp == IndexOf(title, " ")
             rest == SubSeq(s, nl + 1, Len(s))
             nxt == IndexOf(rest, ">")
             body == IF nxt = 0 THEN rest ELSE SubSeq(rest, 1, nxt - 1)
             after == IF nxt = 0 THEN <<>> ELSE SubSeq(rest, nxt, Len(rest))
         IN  <<[id |-> IF sp = 0 THEN title ELSE SubSeq(title, 1, sp - 1),
                seq |-> SelectSeq(body, NotNewline)]>> \o ParseFasta(after)

----------------------------------------------------------------------------
(* utils.split_into_chunks *)

RECURSIVE SplitFrom(_, _, _, _)
SplitFrom(items, chunk_size, cur, curSize) ==
    IF items = <<>> THEN (IF cur = <<>> THEN <<>> ELSE <<cur>>)
    ELSE LET x == Head(items)
         IN  IF cur /= <<>> /\ curSize + Len(x) > chunk_size
             THEN <<cur>> \o SplitFrom(Tail(items), chunk_size, <<x>>, Len(x))
             ELSE SplitFrom(Tail(items), chunk_size, Append(cur, x), curSize + Len(x))

\* greedy, order-preserving grouping of serialised records under a size budget
split_into_chunks(payload, chunk_size) == SplitFrom(payload, chunk_size, <<>>, 0)

----------------------------------------------------------------------------
(* Data frames, optional results and raised errors *)

None == [none |-> TRUE, rows |-> <<>>]
Some(rows) == [none |-> FALSE, rows |-> rows]

Return(v) == [raise |-> "", value |-> v]
Raise(kind) == [raise |-> kind, value |-> None]

\* pd.DataFrame(data, columns=columns) for the two-column tables of the model
DataFrame(data, columns) ==
    [k \in 1..Len(data) |-> [id |-> data[k][1], sequence |-> data[k][2]]]

\* pd.concat(frames, axis="rows", ignore_index=True)
pd_concat(frames) ==
    IF frames = <<>> THEN Raise("ValueError")
    ELSE Return(Some(Concat([k \in 1..Len(frames) |-> frames[k].rows])))

\* the partial results a generator expression keeps: those that are not None
NotNone(partial) == ~partial.none

Ids(rows) == [k \in 1..Len(rows) |-> rows[k].id]
Seqs(rows) == [k \in 1..Len(rows) |-> rows[k].sequence]

----------------------------------------------------------------------------
(* String literals of the program and the inputs the model draws from *)

S_fasta == <<".", "f", "a", "s", "t", "a">>
S_csv == <<".", "c", "s", "v">>
S_general == <<"g", "e", "n", "e", "r", "a", "l">>
S_pred == <<"_", "p", "r", "e", "d", "_">>
S_ampscannerv2 == <<"a", "m", "p", "s", "c", "a", "n", "n", "e", "r", "v", "2">>
S_dbaasp == <<"d", "b", "a", "a", "s", "p", "_">>
S_dbaasp_genome == <<"d", "b", "a", "a", "s", "p", "_", "g", "e", "n", "o", "m", "e", "_">>
S_stm == <<"s", "t", "m">>
S_campr3 == <<"c", "a", "m", "p", "r", "3", "_">>
S_space == <<" ">>
S_underscore == <<"_">>

\* Config.CAMPR3_AVAILABLE_MODELS
CAMPR3_AVAILABLE_MODELS == <<<<"s", "v", "m">>, <<"r", "f">>, <<"a", "n", "n">>>>

\* the status the adapters treat as success
HTTP_OK == 200
Statuses == {HTTP_OK, 500}

\* default of genbank_id
DEFAULT_GENBANK_ID == 2137
GenbankIds == {DEFAULT_GENBANK_ID, 1}

Paths == {<<"d", "/", "x", ".", "f", "a", "s", "t", "a">>, <<"x", ".", "f", "a">>, <<"x", ".", "f", "a", "s", "t", "a", ".", "f", "a", "s", "t", "a">>}
OutputDirs == {<<"o">>}
Strains == {<<>>, S_general, <<"E", " ", "c">>}

\* Config.DBAASP_CHUNK_SIZE and Config.DBAASP_GENOME_CHUNK_SIZE, in characters:
\* a budget that fits one small record and one that fits two
Configs ==
    {[DBAASP_CHUNK_SIZE |-> 6, DBAASP_GENOME_CHUNK_SIZE |-> 11],
     [DBAASP_CHUNK_SIZE |-> 11, DBAASP_GENOME_CHUNK_SIZE |-> 6]}

----------------------------------------------------------------------------
(* The remote services and the normalisers of classif.utils *)

\* what a service can answer: any status, with a body that parses (JSON for
\* DBAASP, HTML holding the expected table for STM and CAMPR3) or does not
Responses == [status : Statuses, parseable : BOOLEAN]

\* the table a service computes for a payload: a header, then a row per record
ServiceTable(payload) ==
    LET recs == ParseFasta(payload)
    IN  <<<<"id", "sequence">>>> \o [k \in 1..Len(recs) |-> <<recs[k].id, recs[k].seq>>]

\* utils.clean_dbaasp_preds, utils.clean_dbaasp_genome_preds, utils.clean_stm_preds,
\* utils.clean_campr3_preds, utils.clean_ampscanner_preds: canonical columns, a row per row
clean_dbaasp_preds(df, strain_) == df
clean_dbaasp_genome_preds(df, strain_) == df
clean_stm_preds(df) == df
clean_campr3_preds(df) == df
clean_ampscanner_preds(df) == df

----------------------------------------------------------------------------
(* Service adapters *)

get_dbaasp_predictions(payload, strain_, resp) ==
    IF ~resp.parseable THEN Raise("JSONDecodeError")
    ELSE LET response == ServiceTable(payload)
         IN  IF resp.status = HTTP_OK
             THEN Return(Some(clean_dbaasp_preds(DataFrame(Tail(response), Head(response)), strain_)))
             ELSE Return(None)

get_dbaasp_genome_predictions(payload, strain_, genbank_id_, resp) ==
    IF ~resp.parseable THEN Raise("JSONDecodeError")
    ELSE LET response == ServiceTable(payload)
         IN  IF resp.status = HTTP_OK
             THEN Return(Some(clean_dbaasp_genome_preds(DataFrame(Tail(response), Head(response)), strain_)))
             ELSE Return(None)

get_stm_predictions(payload, resp) ==
    IF ~resp.parseable THEN Raise("ValueError")
    ELSE LET recs == ParseFasta(payload)
             info == [k \in 1..Len(recs) |-> [id |-> recs[k].id, sequence |-> recs[k].seq]]
         IN  IF resp.status = HTTP_OK THEN Return(Some(clean_stm_preds(info))) ELSE Return(None)

\* the table parsed before the status is looked at, as get_stm_predictions does
campr3_request_ParseFirst(payload, algo, resp) ==
    IF ~resp.parseable THEN Raise("ValueError")
    ELSE IF resp.status = HTTP_OK
         THEN Return(Some(clean_campr3_preds(
                  DataFrame(Tail(ServiceTable(payload)), Head(ServiceTable(payload))))))
         ELSE Return(None)

\* one pass of the loop of get_campr3_predictions: the request for one algorithm
campr3_request(payload, algo, resp) ==
    IF resp.status = HTTP_OK
    THEN IF ~resp.parseable THEN Raise("ValueError")
         ELSE LET response == ServiceTable(payload)
              IN  Return(Some(clean_campr3_preds(DataFrame(Tail(response), Head(response)))))
    ELSE Return(None)

\* the local model: a row per record of the file
get_ampscanner_predictions(records) ==
    [k \in 1..Len(records) |-> [id |-> records[k].id, sequence |-> records[k].seq]]

----------------------------------------------------------------------------
(* Steps of the orchestrators that are pure *)

Unbound == [bound |-> FALSE, value |-> <<>>]
Bound(v) == [bound |-> TRUE, value |-> v]

\* predict_dbaasp, `if not strain:`: whether the ids are backed up and replaced
SubstituteIds(strain_) == strain_ = <<>>

\* the backup of the ids
SavedNames(records, strain_) ==
    IF SubstituteIds(strain_)
    THEN Bound([k \in 1..Len(records) |-> records[k].id])
    ELSE Unbound

\* the records as submitted: ids replaced by str(i) when no strain is given
Submitted(records, strain_) ==
    IF SubstituteIds(strain_)
    THEN [k \in 1..Len(records) |-> [records[k] EXCEPT !.id = Str(k - 1)]]
    ELSE records

FormatAll(records) == [k \in 1..Len(records) |-> Format(records[k])]

\* the chunks predict_dbaasp iterates over
DbaaspChunks(records, strain_, chunk_size) ==
    split_into_chunks(FormatAll(Submitted(records, strain_)), chunk_size)

\* the chunks predict_dbaasp_genome iterates over
GenomeChunks(records, chunk_size) ==
    Sorted(split_into_chunks(FormatAll(records), chunk_size))

\* strain.replace(' ', '_') if strain else "general"
StrainLabel(strain_) ==
    IF strain_ /= <<>> THEN Replace(strain_, S_space, S_underscore) ELSE S_general

\* predict_dbaasp, `if strain == "general":` on the relabelled strain
RestoresIds(strain_) == StrainLabel(strain_) = S_general

\* the assignment of line 43 left out: the frame keeps the ids the service returned
SetIdColumn_NotRestored(res, nms) ==
    IF ~nms.bound THEN Raise("UnboundLocalError") ELSE Return(res)

\* result["id"] = names
SetIdColumn(res, nms) ==
    IF ~nms.bound THEN Raise("UnboundLocalError")
    ELSE IF Len(nms.value) /= Len(res.rows) THEN Raise("ValueError")
    ELSE Return(Some([k \in 1..Len(res.rows) |-> [res.rows[k] EXCEPT !.id = nms.value[k]]]))

AmpscannerOutfile(path, dir) ==
    PathJoin(dir, SplitextRoot(Basename(path)) \o S_pred \o S_ampscannerv2 \o S_csv)

DbaaspOutfile(path, dir, strain_) ==
    PathJoin(dir, SplitextRoot(Basename(path)) \o S_pred \o S_dbaasp \o StrainLabel(strain_) \o S_csv)

GenomeOutfile(path, dir, strain_, genbank_id_) ==
    PathJoin(dir, Replace(Basename(path), S_fasta,
                          S_pred \o S_dbaasp_genome \o Replace(strain_, S_space, S_underscore) \o S_csv))

\* key of the result mapping of get_campr3_predictions
Campr3Key(algo) == S_campr3 \o algo

Campr3Outfile(path, dir, key) ==
    PathJoin(dir, Replace(Basename(path), S_fasta, S_pred \o key \o S_csv))

StmOutfile(path, dir) ==
    PathJoin(dir, Replace(Basename(path), S_fasta, S_pred \o S_stm \o S_csv))

----------------------------------------------------------------------------
(* State *)

VARIABLES
    input_path,   \* the input file's path, the same for every invocation
    output_dir,   \* the output directory, the same for every invocation
    file,         \* list(Bio.SeqIO.parse(input_path, "fasta"))
    config,       \* the chunk-size budgets of Config
    fs,           \* files written so far: path -> the invocation that wrote it last
    runs,         \* invocations started
    pc,           \* where the current invocation is
    fn,           \* the predict_* function of the current invocation
    strain,       \* its strain argument
    genbank_id,   \* its genbank_id argument
    names,        \* the local `names` of predict_dbaasp
    chunks,       \* the chunks the invocation iterates over, in iteration order
    requests,     \* payloads posted so far, in the order they were posted
    responses,    \* the responses received, one per request
    partials,     \* what the adapter returned for each response
    result,       \* the mapping get_campr3_predictions builds: key -> data frame or None
    written,      \* to_csv calls of the current invocation: [outfile, rows]
    err           \* the error that ended the invocation: [kind, line]

env == <<input_path, output_dir, file, config>>
run == <<pc, fn, strain, genbank_id, names, chunks, requests, responses, partials,
         result, written, err>>
vars == <<env, fs, runs, run>>

NoError == [kind |-> "", line |-> 0]
Error(kind, line) == [kind |-> kind, line |-> line]

Init ==
    /\ input_path \in Paths
    /\ output_dir \in OutputDirs
    /\ file \in Files
    /\ config \in Configs
    /\ fs = <<>>
    /\ runs = 0
    /\ pc = "idle"
    /\ fn = ""
    /\ strain = <<>>
    /\ genbank_id = DEFAULT_GENBANK_ID
    /\ names = Unbound
    /\ chunks = <<>>
    /\ requests = <<>>
    /\ responses = <<>>
    /\ partials = <<>>
    /\ result = <<>>
    /\ written = <<>>
    /\ err = NoError

\* a new invocation starts when none is in progress
CanStart == pc \in {"idle", "done", "error"} /\ runs < MaxRuns

\* entry of a predict_* function with its arguments
Enter(f, strain_, genbank_id_, firstPc) ==
    /\ CanStart
    /\ runs' = runs + 1
    /\ fn' = f
    /\ strain' = strain_
    /\ genbank_id' = genbank_id_
    /\ pc' = firstPc
    /\ requests' = <<>>
    /\ responses' = <<>>
    /\ partials' = <<>>
    /\ result' = <<>>
    /\ written' = <<>>
    /\ err' = NoError
    /\ UNCHANGED <<env, fs>>

\* the invocation ends with an exception raised at `line`
Fail(kind, line) ==
    /\ pc' = "error"
    /\ err' = Error(kind, line)

\* df.to_csv(outfile, index=False)
ToCsv(outfile, rows) ==
    /\ written' = Append(written, [outfile |-> outfile, rows |-> rows])
    /\ fs' = (outfile :> [fn |-> fn, strain |-> strain, genbank_id |-> genbank_id]) @@ fs

----------------------------------------------------------------------------
(* predict_ampscanner *)

predict_ampscanner_begin ==
    /\ Enter("ampscanner", <<>>, DEFAULT_GENBANK_ID, "ampscanner")
    /\ names' = Unbound
    /\ chunks' = <<>>

predict_ampscanner_end ==
    /\ pc = "ampscanner"
    /\ ToCsv(AmpscannerOutfile(input_path, output_dir),
             clean_ampscanner_preds(get_ampscanner_predictions(file)))
    /\ pc' = "done"
    /\ UNCHANGED <<env, runs, fn, strain, genbank_id, names, chunks, requests,
                   responses, partials, result, err>>

----------------------------------------------------------------------------
(* predict_dbaasp *)

\* lines 30-37: parse, back up and replace the ids, format, chunk
predict_dbaasp_begin(strain_) ==
    /\ Enter("dbaasp", strain_, DEFAULT_GENBANK_ID, "dbaasp")
    /\ names' = SavedNames(file, strain_)
    /\ chunks' = DbaaspChunks(file, strain_, config.DBAASP_CHUNK_SIZE)

\* one step of the generator of lines 36-37, driven by pd.concat: post the next chunk
predict_dbaasp_chunk(resp) ==
    /\ pc = "dbaasp"
    /\ Len(requests) < Len(chunks)
    /\ LET payload == Concat(chunks[Len(requests) + 1])
           r == get_dbaasp_predictions(payload, strain, resp)
       IN  /\ requests' = Append(requests, payload)
           /\ responses' = Append(responses, resp)
           /\ IF r.raise /= ""
              THEN Fail(r.raise, 140) /\ UNCHANGED partials
              ELSE partials' = Append(partials, r.value) /\ UNCHANGED <<pc, err>>
    /\ UNCHANGED <<env, fs, runs, fn, strain, genbank_id, names, chunks, result, written>>

\* lines 38-47: concatenate, restore the ids, write
predict_dbaasp_end ==
    /\ pc = "dbaasp"
    /\ Len(requests) = Len(chunks)
    /\ LET cat == pd_concat(SelectSeq(partials, NotNone))
           outfile == DbaaspOutfile(input_path, output_dir, strain)
           restored == IF RestoresIds(strain) THEN SetIdColumn(cat.value, names)
                       ELSE Return(cat.value)
       IN  IF cat.raise /= ""
           THEN Fail(cat.raise, 38) /\ UNCHANGED <<fs, written>>
           ELSE IF restored.raise /= ""
           THEN Fail(restored.raise, 43) /\ UNCHANGED <<fs, written>>
           ELSE /\ ToCsv(outfile, restored.value.rows)
                /\ pc' = "done"
                /\ UNCHANGED err
    /\ UNCHANGED <<env, runs, fn, strain, genbank_id, names, chunks, requests,
                   responses, partials, result>>

----------------------------------------------------------------------------
(* predict_dbaasp_genome *)

\* lines 52-54: format, chunk, sort the chunks
predict_dbaasp_genome_begin(strain_, genbank_id_) ==
    /\ Enter("genome", strain_, genbank_id_, "genome")
    /\ names' = Unbound
    /\ chunks' = GenomeChunks(file, config.DBAASP_GENOME_CHUNK_SIZE)

predict_dbaasp_genome_chunk(resp) ==
    /\ pc = "genome"
    /\ Len(requests) < Len(chunks)
    /\ LET payload == Concat(chunks[Len(requests) + 1])
           r == get_dbaasp_genome_predictions(payload, strain, genbank_id, resp)
       IN  /\ requests' = Append(requests, payload)
           /\ responses' = Append(responses, resp)
           /\ IF r.raise /= ""
              THEN Fail(r.raise, 163) /\ UNCHANGED partials
              ELSE partials' = Append(partials, r.value) /\ UNCHANGED <<pc, err>>
    /\ UNCHANGED <<env, fs, runs, fn, strain, genbank_id, names, chunks, result, written>>

\* lines 55-61: concatenate, write
predict_dbaasp_genome_end ==
    /\ pc = "genome"
    /\ Len(requests) = Len(chunks)
    /\ LET cat == pd_concat(SelectSeq(partials, NotNone))
       IN  IF cat.raise /= ""
           THEN Fail(cat.raise, 55) /\ UNCHANGED <<fs, written>>
           ELSE /\ ToCsv(GenomeOutfile(input_path, output_dir, strain, genbank_id),
                         cat.value.rows)
                /\ pc' = "done"
                /\ UNCHANGED err
    /\ UNCHANGED <<env, runs, fn, strain, genbank_id, names, chunks, requests,
                   responses, partials, result>>

----------------------------------------------------------------------------
(* predict_campr3 and get_campr3_predictions *)

\* line 65: the whole file is one payload
WholePayload == Concat(FormatAll(file))

predict_campr3_begin ==
    /\ Enter("campr3", <<>>, DEFAULT_GENBANK_ID, "campr3")
    /\ names' = Unbound
    /\ chunks' = <<<<WholePayload>>>>

\* one pass of the loop of get_campr3_predictions
get_campr3_predictions_step(resp) ==
    /\ pc = "campr3"
    /\ Len(requests) < Len(CAMPR3_AVAILABLE_MODELS)
    /\ LET algo == CAMPR3_AVAILABLE_MODELS[Len(requests) + 1]
           payload == Concat(chunks[1])
           r == campr3_request(payload, algo, resp)
       IN  /\ requests' = Append(requests, [algo |-> algo, payload |-> payload])
           /\ responses' = Append(responses, resp)
           /\ IF r.raise /= ""
              THEN Fail(r.raise, 126) /\ UNCHANGED <<partials, result>>
              ELSE /\ partials' = Append(partials, r.value)
                   /\ result' = (Campr3Key(algo) :> r.value) @@ result
                   /\ UNCHANGED <<pc, err>>
    /\ UNCHANGED <<env, fs, runs, fn, strain, genbank_id, names, chunks, written>>

\* the keys of the mapping in insertion order, as result.items() yields them
ResultKeys ==
    LET all == [k \in 1..Len(CAMPR3_AVAILABLE_MODELS) |-> Campr3Key(CAMPR3_AVAILABLE_MODELS[k])]
        InResult(key) == key \in DOMAIN result
    IN  SelectSeq(all, InResult)

\* lines 67-73: a file per entry that is not None
predict_campr3_end ==
    /\ pc = "campr3"
    /\ Len(requests) = Len(CAMPR3_AVAILABLE_MODELS)
    /\ LET Kept(key) == ~result[key].none
           keys == SelectSeq(ResultKeys, Kept)
           files == [k \in 1..Len(keys) |->
                        [outfile |-> Campr3Outfile(input_path, output_dir, keys[k]),
                         rows |-> result[keys[k]].rows]]
           names_ == {files[k].outfile : k \in 1..Len(files)}
       IN  /\ written' = files
           /\ fs' = [n \in names_ |-> [fn |-> fn, strain |-> strain, genbank_id |-> genbank_id]] @@ fs
    /\ pc' = "done"
    /\ UNCHANGED <<env, runs, fn, strain, genbank_id, names, chunks, requests,
                   responses, partials, result, err>>

----------------------------------------------------------------------------
(* predict_stm *)

predict_stm_begin ==
    /\ Enter("stm", <<>>, DEFAULT_GENBANK_ID, "stm")
    /\ names' = Unbound
    /\ chunks' = <<<<WholePayload>>>>

\* lines 78-84: post the payload, write the result if there is one
predict_stm_end(resp) ==
    /\ pc = "stm"
    /\ LET payload == Concat(chunks[1])
           r == get_stm_predictions(payload, resp)
       IN  /\ requests' = Append(requests, payload)
           /\ responses' = Append(responses, resp)
           /\ IF r.raise /= ""
              THEN Fail(r.raise, 177) /\ UNCHANGED <<partials, fs, written>>
              ELSE /\ partials' = Append(partials, r.value)
                   /\ pc' = "done"
                   /\ UNCHANGED err
                   /\ IF ~r.value.none
                      THEN ToCsv(StmOutfile(input_path, output_dir), r.value.rows)
                      ELSE UNCHANGED <<fs, written>>
    /\ UNCHANGED <<env, runs, fn, strain, genbank_id, names, chunks, result>>

----------------------------------------------------------------------------
(* Specification *)

Next ==
    \/ predict_ampscanner_begin
    \/ predict_ampscanner_end
    \/ \E s \in Strains : predict_dbaasp_begin(s)
    \/ \E resp \in Responses : predict_dbaasp_chunk(resp)
    \/ predict_dbaasp_end
    \/ \E s \in Strains, g \in GenbankIds : predict_dbaasp_genome_begin(s, g)
    \/ \E resp \in Responses : predict_dbaasp_genome_chunk(resp)
    \/ predict_dbaasp_genome_end
    \/ predict_campr3_begin
    \/ \E resp \in Responses : get_campr3_predictions_step(resp)
    \/ predict_campr3_end
    \/ predict_stm_begin
    \/ \E resp \in Responses : predict_stm_end(resp)

Spec == Init /\ [][Next]_vars

----------------------------------------------------------------------------
(* Vocabulary of the properties *)

Ended == pc \in {"done", "error"}
Chunked == fn \in {"dbaasp", "genome"}

\* the chunks in the order the chunker produced them for the current invocation
ChunkerOutput ==
    IF fn = "dbaasp"
    THEN split_into_chunks(FormatAll(Submitted(file, strain)), config.DBAASP_CHUNK_SIZE)
    ELSE split_into_chunks(FormatAll(file), config.DBAASP_GENOME_CHUNK_SIZE)

\* the serialised records the current invocation hands to the chunker
SerialisedRecords ==
    IF fn = "dbaasp" THEN FormatAll(Submitted(file, strain)) ELSE FormatAll(file)

ChunkLimit ==
    IF fn = "dbaasp" THEN config.DBAASP_CHUNK_SIZE ELSE config.DBAASP_GENOME_CHUNK_SIZE

\* every chunk has been answered, with a body that parses
AllAnswered ==
    /\ Len(responses) = Len(chunks)
    /\ \A k \in 1..Len(responses) : responses[k].parseable

FailedRequests == {k \in 1..Len(responses) : responses[k].status /= HTTP_OK}

OriginalIds == [k \in 1..Len(file) |-> file[k].id]
OriginalSeqs == [k \in 1..Len(file) |-> file[k].seq]

\* the sequences of the records of the chunker's chunks, in chunker order, without
\* those of the chunk whose payload is `skipped`
SeqsExcept(skipped) ==
    LET Kept(chunk) == Concat(chunk) /= skipped
        kept == SelectSeq(ChunkerOutput, Kept)
        recs == ParseFasta(Concat([k \in 1..Len(kept) |-> Concat(kept[k])]))
    IN  [k \in 1..Len(recs) |-> recs[k].seq]

ChunkSize(chunk) == Len(Concat(chunk))

----------------------------------------------------------------------------
(* C1 *)

\* C1: in predict_dbaasp and predict_dbaasp_genome, for every strain, when the input
\* makes N >= 2 chunks and exactly one chunk's request is answered with a non-success
\* status (every body parsing, the others 200), the run completes and the written
\* result holds the rows of every other chunk, in the chunker's order, and no row
\* for the failed chunk.
C1_PartialFailure ==
    (/\ Chunked
     /\ Ended
     /\ Len(chunks) >= 2
     /\ AllAnswered
     /\ Cardinality(FailedRequests) = 1)
    => /\ pc = "done"
       /\ Len(written) = 1
       /\ \A k \in FailedRequests : Seqs(written[1].rows) = SeqsExcept(requests[k])

----------------------------------------------------------------------------
(* C2 *)

\* C2: when predict_dbaasp runs with an empty strain, the 'id' column of the written
\* result is the list of the input's identifiers, in input order, row for row.
C2_IdentifierRestoration ==
    (fn = "dbaasp" /\ strain = <<>> /\ written /= <<>>)
    => Ids(written[1].rows) = OriginalIds

\* an empty-strain run over several chunks has written its result
C2_Witness ==
    /\ fn = "dbaasp"
    /\ strain = <<>>
    /\ pc = "done"
    /\ Len(chunks) >= 2
    /\ Len(written) = 1
    /\ Len(written[1].rows) >= 2
    /\ Ids(Concat([k \in 1..Len(partials) |-> partials[k].rows])) /= OriginalIds

----------------------------------------------------------------------------
(* C3 *)

\* C3: whatever the body, a response with a non-success status makes the adapter
\* return None for that submission and never ends the invocation with an error.
C3_NonSuccessYieldsNone ==
    (responses /= <<>> /\ responses[Len(responses)].status /= HTTP_OK)
    => /\ Len(partials) = Len(responses)
       /\ partials[Len(partials)].none
       /\ ~(pc = "error" /\ err.line \in {126, 140, 163, 177})

----------------------------------------------------------------------------
(* C4 *)

\* C4: in predict_dbaasp and predict_dbaasp_genome, when every chunk has been processed
\* and none contributed a result (no records, or only non-success answers), the
\* run ends normally and has written an empty file.
C4_EmptyResultWritesEmptyFile ==
    (/\ Chunked
     /\ Ended
     /\ AllAnswered
     /\ \A k \in 1..Len(responses) : responses[k].status /= HTTP_OK)
    => /\ pc = "done"
       /\ Len(written) = 1
       /\ written[1].rows = <<>>

----------------------------------------------------------------------------
(* C5 *)

\* C5: in predict_dbaasp and predict_dbaasp_genome the requests are posted for the
\* chunks in the order the chunker produced them, and when every chunk succeeds
\* the written rows follow the order of the input's records.
C5_ChunkOrder ==
    Chunked
    => /\ Len(requests) <= Len(ChunkerOutput)
       /\ \A k \in 1..Len(requests) : requests[k] = Concat(ChunkerOutput[k])
       /\ (pc = "done" /\ FailedRequests = {})
          => Seqs(written[1].rows) = OriginalSeqs

----------------------------------------------------------------------------
(* C6 *)

\* the parameter set of an invocation of fn
ParameterSet(w) ==
    IF w.fn = "dbaasp" THEN <<w.strain>>
    ELSE IF w.fn = "genome" THEN <<w.strain, w.genbank_id>>
    ELSE <<>>

\* C6: a run never overwrites the output file of an earlier run of the same function
\* that had another parameter set.
C6_OneFilePerParameterSet ==
    [][\A n \in DOMAIN fs :
          (n \in DOMAIN fs' /\ fs'[n].fn = fs[n].fn)
          => ParameterSet(fs'[n]) = ParameterSet(fs[n])]_vars

----------------------------------------------------------------------------
(* C7 *)

\* the <service>[_<param>] part of the names an invocation may give its files
ServiceParts ==
    IF fn = "ampscanner" THEN {S_ampscannerv2}
    ELSE IF fn = "dbaasp" THEN {S_dbaasp \o StrainLabel(strain)}
    ELSE IF fn = "genome" THEN {S_dbaasp_genome \o Replace(strain, S_space, S_underscore)}
    ELSE IF fn = "stm" THEN {S_stm}
    ELSE {Campr3Key(CAMPR3_AVAILABLE_MODELS[k]) : k \in 1..Len(CAMPR3_AVAILABLE_MODELS)}

\* C7: every file a predict_* function writes is named
\* <input-basename>_pred_<service>[_<param>].csv inside output_dir, the basename
\* being the input's file name without its extension, and is never named as the input.
C7_OutputFilenamePattern ==
    \A k \in 1..Len(written) :
        /\ \E part \in ServiceParts :
              written[k].outfile =
                  PathJoin(output_dir, SplitextRoot(Basename(input_path)) \o S_pred \o part \o S_csv)
        /\ Basename(written[k].outfile) /= Basename(input_path)

----------------------------------------------------------------------------
(* C8 *)

ConfiguredKeys ==
    [k \in 1..Len(CAMPR3_AVAILABLE_MODELS) |-> Campr3Key(CAMPR3_AVAILABLE_MODELS[k])]

\* C8: get_campr3_predictions posts one request per configured algorithm, in
\* configured order; its mapping has one entry per algorithm asked, None exactly for
\* the non-success answers; a non-success answer never ends the run; and
\* predict_campr3 writes a file for exactly the entries that are not None.
C8_Campr3PerAlgorithm ==
    fn = "campr3"
    => /\ Len(requests) <= Len(CAMPR3_AVAILABLE_MODELS)
       /\ \A k \in 1..Len(requests) : requests[k].algo = CAMPR3_AVAILABLE_MODELS[k]
       /\ pc = "error" => responses[Len(responses)].status = HTTP_OK
       /\ pc /= "error"
          => /\ DOMAIN result = {ConfiguredKeys[k] : k \in 1..Len(requests)}
             /\ \A k \in 1..Len(requests) :
                   result[ConfiguredKeys[k]].none <=> responses[k].status /= HTTP_OK
       /\ pc = "done"
          => /\ Len(requests) = Len(CAMPR3_AVAILABLE_MODELS)
             /\ LET Succeeded(k) == responses[k].status = HTTP_OK
                    ok == SelectSeq([k \in 1..Len(responses) |-> k], Succeeded)
                IN  [k \in 1..Len(written) |-> written[k].outfile] =
                    [k \in 1..Len(ok) |->
                        Campr3Outfile(input_path, output_dir, ConfiguredKeys[ok[k]])]

\* a run in which one algorithm failed and a later one succeeded has written its files
C8_Witness ==
    /\ fn = "campr3"
    /\ pc = "done"
    /\ file /= <<>>
    /\ \E j, k \in 1..Len(responses) :
          /\ j < k
          /\ responses[j].status /= HTTP_OK
          /\ ~responses[j].parseable
          /\ responses[k].status = HTTP_OK
    /\ written /= <<>>

----------------------------------------------------------------------------
(* C9 *)

\* C9: the chunks passed to the adapters, concatenated in order, are the serialised
\* records in their original order, and no chunk is larger than the limit unless it
\* is one record that alone exceeds it.
C9_ChunkerRoundTrip ==
    (Chunked /\ pc /= "idle")
    => /\ Concat(chunks) = SerialisedRecords
       /\ \A k \in 1..Len(chunks) :
             ChunkSize(chunks[k]) <= ChunkLimit \/ Len(chunks[k]) = 1

----------------------------------------------------------------------------
(* C10 *)

\* C10: when predict_dbaasp is given a non-empty strain, "general" included, the ids
\* are submitted unchanged and the 'id' column is not overwritten; the restoration
\* step of line 43 runs only in runs that saved the ids.
C10_RestorationOnlyWithoutStrain ==
    fn = "dbaasp"
    => /\ strain /= <<>>
          => /\ Concat(chunks) = FormatAll(file)
             /\ err.line /= 43
             /\ pc = "done" => Ids(written[1].rows) = OriginalIds
       /\ err.line = 43 => names.bound

====
